---- MODULE Spec2Model ----
(***************************************************************************)
(* memglass producer core (src/src/allocator.cpp): RegionManager,          *)
(* MetadataManager and ObjectManager, as a state machine over the shared   *)
(* memory they write (header, data-region descriptors, overflow            *)
(* descriptors, object entries) and the producer-local state (region and   *)
(* overflow vectors, id counters, pointer map, mutexes).                   *)
(*                                                                         *)
(* Every store to shared memory is a step of its own, so each state of the *)
(* model is a state an out-of-process observer can read.  Steps that touch *)
(* only thread-local or mutex-protected producer-local state are merged    *)
(* with the next shared store, and so are the plain stores to the body of  *)
(* one object entry.                                                       *)
(*                                                                         *)
(* Unsigned machine integers (size_t, uint64_t, uint32_t) are modelled by  *)
(* their two's-complement representative: a negative number -k stands for  *)
(* 2^w - k.  Addition and multiplication by small factors are then the     *)
(* integer operations, and only comparisons need the unsigned order (ULt). *)
(***************************************************************************)
EXTENDS Integers, Sequences, FiniteSets, TLC

\* ------------------------------------------------------------------ bounds

\* Number of producer operations started after RegionManager::init.
MaxOps == 2

\* Producer threads.  Idle threads are interchangeable, so thread 2 starts an
\* operation only while thread 1 is inside one.
Threads == {1, 2}

\* ------------------------------------------------------- layout constants

\* sizeof of the on-wire structs (types.hpp), from the binary layout with
\* natural alignment.
SizeofRegionDescriptor == 296
SizeofMetadataOverflowDescriptor == 320
SizeofObjectEntry == 96
SizeofTypeEntry == 80
SizeofFieldEntry == 80

\* ObjectState
Alive == 1
Destroyed == 2

\* REGION_MAGIC / OVERFLOW_MAGIC: any non-zero tag, distinct from fresh
\* (zeroed) shared memory.
REGION_MAGIC == "RGN"
OVERFLOW_MAGIC == "OVF"

\* ------------------------------------------------------------ input sets

\* Config values a Context may be built with (initial_region_size,
\* max_region_size, overflow_region_size, header pool capacities).
\* Overflow sub-pool capacities these sizes give (object/type/field):
\*   320 -> 0/0/0,  520 -> 1/0/1,  1120 -> 4/1/4.
Configs ==
    { [initial_region_size |-> 64, max_region_size |-> 128,
       overflow_region_size |-> 320,
       object_dir_capacity |-> 1, type_registry_capacity |-> 1,
       field_entries_capacity |-> 2],
      [initial_region_size |-> 64, max_region_size |-> 1024,
       overflow_region_size |-> 520,
       object_dir_capacity |-> 1, type_registry_capacity |-> 1,
       field_entries_capacity |-> 2],
      [initial_region_size |-> 64, max_region_size |-> 1024,
       overflow_region_size |-> 1120,
       object_dir_capacity |-> 2, type_registry_capacity |-> 0,
       field_entries_capacity |-> 1],
      [initial_region_size |-> 64, max_region_size |-> 1024,
       overflow_region_size |-> 1120,
       object_dir_capacity |-> 0, type_registry_capacity |-> 1,
       field_entries_capacity |-> 1] }

\* allocate(size, alignment) arguments; -8 is the size_t 2^64 - 8, 1024 an
\* alignment above the size of a RegionDescriptor.
AllocArgs ==
    { << 16, 8 >>, << 16, 16 >>, << 200, 8 >>, << -8, 8 >>, << 16, 1024 >> }

\* allocate_field_entries(count) arguments; -1 is the uint32_t 2^32 - 1.
FieldCounts == {0, 1, 2, -1}

\* register_object arguments.
TypeIds == {1}
Labels == {"a", "ab"}

\* TypeEntry.size of a registered type.
TypeSize(type_id) == 16

\* ---------------------------------------------------- unsigned arithmetic

\* a < b in the unsigned order of the representatives.
ULt(a, b) == IF (a < 0) = (b < 0) THEN a < b ELSE b < 0
ULe(a, b) == ~ULt(b, a)
UMax(a, b) == IF ULt(a, b) THEN b ELSE a
UMin(a, b) == IF ULt(b, a) THEN b ELSE a

\* (current + alignment - 1) & ~(alignment - 1), alignment a power of two.
AlignUp(current, alignment) ==
    ((current + alignment - 1) \div alignment) * alignment


\* ------------------------------------------------------------------ state

VARIABLES
    cfg,                 \* Context::config()
    phase,               \* "constructed", "initializing", "ready", "failed"
    header,              \* TelemetryHeader: sequence, first_*_id, pool counts
    regions,             \* RegionManager::regions_ (descriptors included)
    next_region_id,      \* RegionManager::next_region_id_
    current_region_size, \* RegionManager::current_region_size_
    overflow_regions,    \* MetadataManager::overflow_regions_
    next_overflow_id,    \* MetadataManager::next_overflow_id_
    entries,             \* ObjectEntry memory, by slot <<pool, index>>
    ptr_to_entry,        \* ObjectManager::ptr_to_entry_
    mutex,               \* holder of each manager's mutex_ (0: free)
    pc,                  \* each thread's position
    loc,                 \* each thread's arguments and locals
    last,                \* the call that returned last: arguments and result
    blocks,              \* blocks the application got from allocate
    nops,                \* operations started
    crashed,             \* the process died on an out-of-bounds store
    stored,              \* stores made into data-region mappings
    obs,                 \* the observer process: its refresh() call
    tally                \* how many calls and creations have succeeded

vars == << cfg, phase, header, regions, next_region_id, current_region_size,
           overflow_regions, next_overflow_id, entries, ptr_to_entry, mutex,
           pc, loc, last, blocks, nops, crashed, stored, obs, tally >>

\* A pointer is <<region id, offset from that mapping's base>>; mappings are
\* disjoint.  NullPtr is nullptr (and any address in no mapping).
NullPtr == << 0, 0 >>

\* A Region whose shared memory was just created: the descriptor is zeroed.
FreshRegion(id) ==
    [id |-> id, magic |-> "", region_id |-> 0, size |-> 0, used |-> 0,
     next_region_id |-> 0, shm_name |-> 0]

\* An OverflowRegion whose shared memory was just created (and memset to 0).
FreshOverflow(id) ==
    [id |-> id, magic |-> "", region_id |-> 0, next_region_id |-> 0,
     shm_name |-> 0,
     object_entry_capacity |-> 0, object_entry_count |-> 0,
     type_entry_capacity |-> 0, type_entry_count |-> 0,
     field_entry_capacity |-> 0, field_entry_count |-> 0]

\* Zeroed ObjectEntry bytes.
ZeroEntry ==
    [state |-> 0, type_id |-> 0, region_id |-> 0, offset |-> 0,
     generation |-> 0, label |-> ""]

\* An entry slot is <<pool, index>>: pool 0 is the header pool, pool k the
\* pool of the overflow region with id k.  NoSlot is a null entry pointer.
NoSlot == << -1, 0 >>

\* A thread outside any operation.  dirty: the call has made a change an
\* observer can see and has not bumped sequence since.
Loc0 ==
    [op |-> "", size |-> 0, alignment |-> 0, ptr |-> NullPtr, type_id |-> 0,
     label |-> "", count |-> 0, region |-> FreshRegion(0),
     overflow |-> FreshOverflow(0), region_id |-> 0, offset |-> 0,
     slot |-> NoSlot, ok |-> FALSE, ret |-> NullPtr, dirty |-> FALSE,
     all |-> << >>]

\* An observer outside refresh(): s0 is the sequence loaded before the walk,
\* objects the object list of the last walk, result how the last call ended.
Obs0 ==
    [pc |-> "idle", s0 |-> 0, retries |-> 0, objects |-> {}, result |-> ""]

\* Nothing has been registered, destroyed or created.
Tally0 == [registered |-> 0, destroyed |-> 0, grown |-> 0, overflows |-> 0]

Init ==
    /\ tally = Tally0
    /\ obs = Obs0
    /\ cfg \in Configs
    /\ phase = "constructed"
    /\ header = [sequence |-> 0, first_region_id |-> 0,
                 first_overflow_region_id |-> 0,
                 object_count |-> 0, type_count |-> 0, field_count |-> 0]
    /\ regions = << >>
    /\ next_region_id = 1
    /\ current_region_size = cfg.initial_region_size
    /\ overflow_regions = << >>
    /\ next_overflow_id = 1
    /\ entries = << >>
    /\ ptr_to_entry = << >>
    /\ mutex = [regions |-> 0, metadata |-> 0, objects |-> 0]
    /\ pc = [t \in Threads |-> "idle"]
    /\ loc = [t \in Threads |-> Loc0]
    /\ last = Loc0
    /\ blocks = {}
    /\ nops = 0
    /\ crashed = FALSE
    /\ stored = {}

\* A thread may enter an operation.
CanStart(t) ==
    /\ pc[t] = "idle"
    /\ phase = "ready"
    /\ ~crashed
    /\ nops < MaxOps
    /\ (t = 1 \/ pc[1] # "idle")

\* The call of thread t returns, with r its arguments and result.
Finish(t, r) ==
    /\ pc' = [pc EXCEPT ![t] = "idle"]
    /\ loc' = [loc EXCEPT ![t] = Loc0]
    /\ last' = r

\* ~lock_guard: the mutex is released when the call leaves the scope.
StayLocked(m, name) == m
Unlock(m, name) == [m EXCEPT ![name] = 0]

\* sequence.fetch_add(1, release)
FetchSubSequence(h) == [h EXCEPT !.sequence = @ - 1]
FetchAddTwoSequence(h) == [h EXCEPT !.sequence = @ + 2]
FetchAddSequence(h) == [h EXCEPT !.sequence = @ + 1]

\* ---------------------------------------------------------- RegionManager

\* create_region line 38, next_region_id_++: the id is taken before
\* shm.create is tried.
StuckRegionId(n) == n
TakeRegionId(n) == n + 1

\* RegionDescriptor: the <<offset, length>> of each field in the mapping.
RegionDescriptorLayout ==
    [magic |-> << 0, 8 >>, region_id |-> << 8, 8 >>, size |-> << 16, 8 >>,
     used |-> << 24, 8 >>, next_region_id |-> << 32, 8 >>,
     shm_name |-> << 40, 256 >>]

\* A store into the mapping of data region id, by a manager operation:
\* <<operation, region id, offset, length>>.
FieldStore(op, id, field) ==
    << op, id, RegionDescriptorLayout[field][1],
       RegionDescriptorLayout[field][2] >>

\* create_region lines 49-56: the stores that write the new descriptor.
DescriptorStores(op, id) ==
    { FieldStore(op, id, field) :
        field \in {"magic", "region_id", "size", "used", "next_region_id",
                   "shm_name"} }

\* create_region line 60: the store into the previous region, if there is one.
LinkStores(op, rs) ==
    IF rs = << >> THEN {}
    ELSE { FieldStore(op, rs[Len(rs)].id, "next_region_id") }

\* allocate line 106: the only store allocate makes for the block itself.
BlockStoreTarget(op, region) == << op, region.id, region.used, 8 >>
UsedStoreTarget(op, region) == FieldStore(op, region.id, "used")

\* create_region lines 49-56: the descriptor of the new mapping.
InitDescriptor(region, size) ==
    [region EXCEPT !.magic = REGION_MAGIC,
                   !.region_id = region.id,
                   !.size = SizeofRegionDescriptor + size,
                   !.used = SizeofRegionDescriptor,
                   !.next_region_id = 0,
                   !.shm_name = region.id]

\* create_region lines 58-65: next_region_id of the previous region is stored
\* and the region joins regions_.
PushUnlinked(rs, region) == Append(rs, region)
LinkRegion(rs, region) ==
    Append(IF rs = << >> THEN rs
           ELSE [rs EXCEPT ![Len(rs)].next_region_id = region.id],
           region)

\* RegionManager::init lines 19-25 with shm.create succeeding: the mapping
\* exists and its descriptor is written; nothing points to it yet.
InitCreate(t) ==
    /\ phase = "constructed" /\ t = 1 /\ pc[t] = "idle"
    /\ phase' = "initializing"
    /\ mutex' = [mutex EXCEPT !.regions = t]
    /\ current_region_size' = cfg.initial_region_size
    /\ next_region_id' = TakeRegionId(next_region_id)
    /\ loc' = [loc EXCEPT ![t] =
                 [Loc0 EXCEPT !.op = "init",
                              !.size = cfg.initial_region_size,
                              !.region = InitDescriptor(
                                  FreshRegion(next_region_id),
                                  cfg.initial_region_size)]]
    /\ stored' = stored \cup DescriptorStores("init", next_region_id)
    /\ pc' = [pc EXCEPT ![t] = "cr_link"]
    /\ UNCHANGED << cfg, header, regions, overflow_regions, next_overflow_id,
                    entries, ptr_to_entry, last, blocks, nops, crashed, obs,
                    tally >>

\* RegionManager::init when shm.create fails: returns false.
InitCreateFail(t) ==
    /\ phase = "constructed" /\ t = 1 /\ pc[t] = "idle"
    /\ phase' = "failed"
    /\ current_region_size' = cfg.initial_region_size
    /\ next_region_id' = TakeRegionId(next_region_id)
    /\ Finish(t, [Loc0 EXCEPT !.op = "init",
                              !.size = cfg.initial_region_size])
    /\ UNCHANGED << cfg, header, regions, overflow_regions, next_overflow_id,
                    entries, ptr_to_entry, mutex, blocks, nops, crashed, stored,
                    obs, tally >>

\* create_region lines 58-66, in init and in allocate.
CreateRegionLink(t) ==
    /\ pc[t] = "cr_link"
    /\ regions' = LinkRegion(regions, loc[t].region)
    /\ stored' = stored \cup LinkStores(loc[t].op, regions)
    /\ loc' = [loc EXCEPT ![t].dirty = (regions # << >>)]
    /\ pc' = [pc EXCEPT ![t] = IF loc[t].op = "init" THEN "init_publish"
                               ELSE "al_seq"]
    /\ tally' = IF loc[t].op = "init" THEN tally
                ELSE [tally EXCEPT !.grown = @ + 1]
    /\ UNCHANGED << cfg, phase, header, next_region_id, current_region_size,
                    overflow_regions, next_overflow_id, entries, ptr_to_entry,
                    mutex, last, blocks, nops, crashed, obs >>

\* RegionManager::init line 31: first_region_id is published; returns true.
InitPublish(t) ==
    /\ pc[t] = "init_publish"
    /\ header' = [header EXCEPT !.first_region_id = loc[t].region.id]
    /\ phase' = "ready"
    /\ mutex' = Unlock(mutex, "regions")
    /\ Finish(t, [loc[t] EXCEPT !.dirty = TRUE, !.ok = TRUE])
    /\ UNCHANGED << cfg, regions, next_region_id, current_region_size,
                    overflow_regions, next_overflow_id, entries, ptr_to_entry,
                    blocks, nops, crashed, stored, obs, tally >>

\* current_region(); allocate is only reached after init succeeded.
first_region == regions[1]
current_region == regions[Len(regions)]

\* allocate lines 81-83 / 100-102: the bump computation on a region.
NewUsed(region, size, alignment) ==
    AlignUp(region.used, alignment) + size

\* allocate line 86
Fits(region, size, alignment) ==
    ~ULt(region.size, NewUsed(region, size, alignment))

\* allocate lines 88-90
GrowSize(size) ==
    UMin(UMax(size + SizeofRegionDescriptor, current_region_size * 2),
         cfg.max_region_size)

\* allocate lines 106-108 on the last region: used is stored and the block
\* returned.  r: the call so far.
StoreUsed(t, r) ==
    LET region == current_region
        aligned == AlignUp(region.used, r.alignment)
    IN /\ regions' = [i \in DOMAIN regions |->
                         IF regions[i].id = region.id
                         THEN [regions[i] EXCEPT !.used =
                                 NewUsed(region, r.size, r.alignment)]
                         ELSE regions[i]]
       /\ stored' = stored \cup {UsedStoreTarget("allocate", region)}
       /\ blocks' = blocks \cup
                      {[region_id |-> region.id, offset |-> aligned,
                        size |-> r.size]}
       /\ Finish(t, [r EXCEPT !.ok = TRUE, !.ret = << region.id, aligned >>])

\* allocate when the block fits the current region.
AllocateFit(t, size, alignment) ==
    /\ CanStart(t)
    /\ mutex.regions = 0
    /\ Fits(current_region, size, alignment)
    /\ nops' = nops + 1
    /\ StoreUsed(t, [Loc0 EXCEPT !.op = "allocate", !.size = size,
                                 !.alignment = alignment])
    /\ UNCHANGED << cfg, phase, header, next_region_id, current_region_size,
                    overflow_regions, next_overflow_id, entries, ptr_to_entry,
                    mutex, crashed, obs, tally >>

\* allocate when the block does not fit: lines 88-93 with shm.create
\* succeeding.
AllocateGrow(t, size, alignment) ==
    /\ CanStart(t)
    /\ mutex.regions = 0
    /\ ~Fits(current_region, size, alignment)
    /\ nops' = nops + 1
    /\ mutex' = [mutex EXCEPT !.regions = t]
    /\ current_region_size' = GrowSize(size)
    /\ next_region_id' = TakeRegionId(next_region_id)
    /\ loc' = [loc EXCEPT ![t] =
                 [Loc0 EXCEPT !.op = "allocate",
                              !.size = size, !.alignment = alignment,
                              !.region = InitDescriptor(
                                  FreshRegion(next_region_id),
                                  GrowSize(size))]]
    /\ stored' = stored \cup DescriptorStores("allocate", next_region_id)
    /\ pc' = [pc EXCEPT ![t] = "cr_link"]
    /\ UNCHANGED << cfg, phase, header, regions, overflow_regions,
                    next_overflow_id, entries, ptr_to_entry, last, blocks,
                    crashed, obs, tally >>

\* allocate lines 93-97: the sequence bump is behind the early return on a
\* failed create_region.
SequenceAlways(h, created) == FetchAddSequence(h)
SequenceAfterCreate(h, created) ==
    IF created THEN FetchAddSequence(h) ELSE h

\* allocate when the block does not fit and shm.create fails: nullptr.
AllocateGrowFail(t, size, alignment) ==
    /\ CanStart(t)
    /\ mutex.regions = 0
    /\ ~Fits(current_region, size, alignment)
    /\ nops' = nops + 1
    /\ current_region_size' = GrowSize(size)
    /\ next_region_id' = TakeRegionId(next_region_id)
    /\ header' = SequenceAfterCreate(header, FALSE)
    /\ Finish(t, [Loc0 EXCEPT !.op = "allocate", !.size = size,
                              !.alignment = alignment])
    /\ UNCHANGED << cfg, phase, regions, overflow_regions,
                    next_overflow_id, entries, ptr_to_entry, mutex, blocks,
                    crashed, stored, obs, tally >>

\* allocate line 97
AllocateSequence(t) ==
    /\ pc[t] = "al_seq"
    /\ header' = SequenceAfterCreate(header, TRUE)
    /\ loc' = [loc EXCEPT ![t].dirty = FALSE]
    /\ pc' = [pc EXCEPT ![t] = "al_store"]
    /\ UNCHANGED << cfg, phase, regions, next_region_id, current_region_size,
                    overflow_regions, next_overflow_id, entries, ptr_to_entry,
                    mutex, last, blocks, nops, crashed, stored, obs, tally >>

\* allocate lines 100-108 in the new region.
AllocateStore(t) ==
    /\ pc[t] = "al_store"
    /\ StoreUsed(t, loc[t])
    /\ mutex' = Unlock(mutex, "regions")
    /\ UNCHANGED << cfg, phase, header, next_region_id, current_region_size,
                    overflow_regions, next_overflow_id, entries, ptr_to_entry,
                    nops, crashed, obs, tally >>

\* get_location lines 125-136: the first region with ptr in [base, base+size).
LocationAnywhere(ptr) ==
    [found |-> TRUE, region_id |-> ptr[1], offset |-> ptr[2]]
LocationOf(ptr) ==
    LET hits == {i \in 1..Len(regions) :
                    /\ regions[i].id = ptr[1]
                    /\ ptr[2] >= 0
                    /\ ULt(ptr[2], regions[i].size)}
    IN IF hits = {} THEN [found |-> FALSE, region_id |-> 0, offset |-> 0]
       ELSE [found |-> TRUE, region_id |-> ptr[1], offset |-> ptr[2]]

\* get_region_data lines 114-119: the base of the region's mapping.
get_region_data(region_id) ==
    IF \E i \in 1..Len(regions) : regions[i].id = region_id
    THEN << region_id, 0 >> ELSE NullPtr

\* What the caller's region_id and offset variables hold before the call.
CallerOutputs == [region_id |-> 77, offset |-> 77]

\* get_location lines 122-137 as a call of its own: the whole call runs under
\* the RegionManager mutex and writes only its two reference parameters, and
\* those only when it returns true.
GetLocation(t, ptr) ==
    /\ CanStart(t)
    /\ mutex.regions = 0
    /\ nops' = nops + 1
    /\ LET l == LocationOf(ptr)
       IN Finish(t, [Loc0 EXCEPT
                       !.op = "get_location", !.ptr = ptr, !.ok = l.found,
                       !.region_id = IF l.found THEN l.region_id
                                     ELSE CallerOutputs.region_id,
                       !.offset = IF l.found THEN l.offset
                                  ELSE CallerOutputs.offset])
    /\ UNCHANGED << cfg, phase, header, regions, next_region_id,
                    current_region_size, overflow_regions, next_overflow_id,
                    entries, ptr_to_entry, mutex, blocks, crashed, stored,
                    obs, tally >>

\* -------------------------------------------------------- MetadataManager

\* create_overflow_region lines 166-172: the 50/10/40 split of the body.
OverflowAvailable ==
    cfg.overflow_region_size - SizeofMetadataOverflowDescriptor
ObjectCapacity == ((OverflowAvailable * 50) \div 100) \div SizeofObjectEntry
TypeCapacity == ((OverflowAvailable * 10) \div 100) \div SizeofTypeEntry
FieldCapacity == ((OverflowAvailable * 40) \div 100) \div SizeofFieldEntry

\* create_overflow_region lines 156-157: the id is taken before shm.create.
TakeOverflowId(n) == n + 1

\* create_overflow_region lines 185-207: the descriptor of the new mapping.
InitOverflowDescriptor(region) ==
    [region EXCEPT !.magic = OVERFLOW_MAGIC,
                   !.region_id = region.id,
                   !.next_region_id = 0,
                   !.object_entry_capacity = ObjectCapacity,
                   !.object_entry_count = 0,
                   !.type_entry_capacity = TypeCapacity,
                   !.type_entry_count = 0,
                   !.field_entry_capacity = FieldCapacity,
                   !.field_entry_count = 0,
                   !.shm_name = region.id]

\* current_overflow_region(), when there is one.
current_overflow_region == overflow_regions[Len(overflow_regions)]

\* The count store into a sub-pool of the current overflow region.
StoreOverflowCount(field, value) ==
    [overflow_regions EXCEPT ![Len(overflow_regions)][field] = value]

\* An allocator enters create_overflow_region (lines 155-207) with shm.create
\* succeeding: the mapping exists and its descriptor is written.  r: the
\* call so far.
EnterCreateOverflow(t, r) ==
    /\ mutex.metadata = 0
    /\ mutex' = [mutex EXCEPT !.metadata = t]
    /\ next_overflow_id' = TakeOverflowId(next_overflow_id)
    /\ loc' = [loc EXCEPT ![t] =
                 [r EXCEPT !.overflow = InitOverflowDescriptor(
                                            FreshOverflow(next_overflow_id))]]
    /\ pc' = [pc EXCEPT ![t] = "ov_link"]

\* create_overflow_region lines 210-212 and 218-219: next_region_id of the
\* previous overflow region is stored and the region joins overflow_regions_.
PushOverflowUnlinked(ors, region) == Append(ors, region)
LinkOverflowRegion(ors, region) ==
    Append([ors EXCEPT ![Len(ors)].next_region_id = region.id], region)

\* create_overflow_region lines 209-219: the link from the previous overflow
\* region, or from the header, and push_back.
LinkOverflow(t) ==
    /\ pc[t] = "ov_link"
    /\ IF overflow_regions # << >>
       THEN /\ overflow_regions' =
                 LinkOverflowRegion(overflow_regions, loc[t].overflow)
            /\ UNCHANGED header
       ELSE /\ overflow_regions' = << loc[t].overflow >>
            /\ header' = [header EXCEPT !.first_overflow_region_id =
                                          loc[t].overflow.id]
    /\ loc' = [loc EXCEPT ![t].dirty = TRUE]
    /\ pc' = [pc EXCEPT ![t] = "ov_seq"]
    /\ tally' = [tally EXCEPT !.overflows = @ + 1]
    /\ UNCHANGED << cfg, phase, regions, next_region_id, current_region_size,
                    next_overflow_id, entries, ptr_to_entry, mutex, last,
                    blocks, nops, crashed, stored, obs >>

\* create_overflow_region line 222, and the return to the allocator.
OverflowSequence(t) ==
    /\ pc[t] = "ov_seq"
    /\ header' = FetchAddSequence(header)
    /\ loc' = [loc EXCEPT ![t].dirty = FALSE]
    /\ pc' = [pc EXCEPT ![t] =
                CASE loc[t].op = "allocate_type_entry" -> "ty_new"
                  [] loc[t].op = "allocate_field_entries" -> "fl_new"
                  [] OTHER -> "ob_new"]
    /\ UNCHANGED << cfg, phase, regions, next_region_id, current_region_size,
                    overflow_regions, next_overflow_id, entries, ptr_to_entry,
                    mutex, last, blocks, nops, crashed, stored, obs, tally >>

\* allocate_type_entry line 275
TypeHeaderRoom == header.type_count < cfg.type_registry_capacity

\* allocate_type_entry lines 283-286
TypeOverflowRoom ==
    /\ overflow_regions # << >>
    /\ current_overflow_region.type_entry_count
         < current_overflow_region.type_entry_capacity

\* allocate_type_entry lines 274-280: the next slot of the header pool.
TypeEntryHeader(t) ==
    /\ CanStart(t)
    /\ mutex.metadata = 0
    /\ TypeHeaderRoom
    /\ nops' = nops + 1
    /\ header' = [header EXCEPT !.type_count = @ + 1]
    /\ Finish(t, [Loc0 EXCEPT !.op = "allocate_type_entry", !.ok = TRUE,
                              !.slot = << 0, header.type_count >>,
                              !.dirty = TRUE])
    /\ UNCHANGED << cfg, phase, regions, next_region_id, current_region_size,
                    overflow_regions, next_overflow_id, entries, ptr_to_entry,
                    mutex, blocks, crashed, stored, obs, tally >>

\* allocate_type_entry lines 283-292: the next slot of the current overflow
\* region.
TypeEntryOverflow(t) ==
    /\ CanStart(t)
    /\ mutex.metadata = 0
    /\ ~TypeHeaderRoom
    /\ TypeOverflowRoom
    /\ nops' = nops + 1
    /\ overflow_regions' =
         StoreOverflowCount("type_entry_count",
                            current_overflow_region.type_entry_count + 1)
    /\ Finish(t, [Loc0 EXCEPT !.op = "allocate_type_entry", !.ok = TRUE,
                              !.slot = << current_overflow_region.id,
                                 current_overflow_region.type_entry_count >>,
                              !.dirty = TRUE])
    /\ UNCHANGED << cfg, phase, header, regions, next_region_id,
                    current_region_size, next_overflow_id, entries,
                    ptr_to_entry, mutex, blocks, crashed, stored, obs, tally >>

\* allocate_type_entry line 295 with shm.create succeeding.
TypeEntryCreate(t) ==
    /\ CanStart(t)
    /\ ~TypeHeaderRoom
    /\ ~TypeOverflowRoom
    /\ nops' = nops + 1
    /\ EnterCreateOverflow(t, [Loc0 EXCEPT !.op = "allocate_type_entry"])
    /\ UNCHANGED << cfg, phase, header, regions, next_region_id,
                    current_region_size, overflow_regions, entries,
                    ptr_to_entry, last, blocks, crashed, stored, obs, tally >>

\* allocate_type_entry lines 295-296 with shm.create failing: nullptr.
TypeEntryCreateFail(t) ==
    /\ CanStart(t)
    /\ mutex.metadata = 0
    /\ ~TypeHeaderRoom
    /\ ~TypeOverflowRoom
    /\ nops' = nops + 1
    /\ next_overflow_id' = TakeOverflowId(next_overflow_id)
    /\ Finish(t, [Loc0 EXCEPT !.op = "allocate_type_entry"])
    /\ UNCHANGED << cfg, phase, header, regions, next_region_id,
                    current_region_size, overflow_regions, entries,
                    ptr_to_entry, mutex, blocks, crashed, stored, obs, tally >>

\* allocate_type_entry lines 298-301: slot 0 of the new overflow region.
TypeEntryNew(t) ==
    /\ pc[t] = "ty_new"
    /\ overflow_regions' = StoreOverflowCount("type_entry_count", 1)
    /\ mutex' = Unlock(mutex, "metadata")
    /\ Finish(t, [loc[t] EXCEPT !.ok = TRUE,
                                !.slot = << current_overflow_region.id, 0 >>,
                                !.dirty = TRUE])
    /\ UNCHANGED << cfg, phase, header, regions, next_region_id,
                    current_region_size, next_overflow_id, entries,
                    ptr_to_entry, blocks, nops, crashed, stored, obs, tally >>

\* allocate_field_entries line 313; the sum is a uint32_t sum.
FieldHeaderRoom(count) ==
    ULe(header.field_count + count, cfg.field_entries_capacity)

\* allocate_field_entries lines 321-324
FieldOverflowRoom(count) ==
    /\ overflow_regions # << >>
    /\ ULe(current_overflow_region.field_entry_count + count,
           current_overflow_region.field_entry_capacity)

\* allocate_field_entries line 305: a request for no entries.
FieldEntriesNone(t) ==
    /\ CanStart(t)
    /\ nops' = nops + 1
    /\ Finish(t, [Loc0 EXCEPT !.op = "allocate_field_entries"])
    /\ UNCHANGED << cfg, phase, header, regions, next_region_id,
                    current_region_size, overflow_regions, next_overflow_id,
                    entries, ptr_to_entry, mutex, blocks, crashed, stored,
                    obs, tally >>

\* allocate_field_entries lines 312-318: a run in the header pool.
FieldEntriesHeader(t, count) ==
    /\ CanStart(t)
    /\ count # 0
    /\ mutex.metadata = 0
    /\ FieldHeaderRoom(count)
    /\ nops' = nops + 1
    /\ header' = [header EXCEPT !.field_count = @ + count]
    /\ Finish(t, [Loc0 EXCEPT !.op = "allocate_field_entries",
                              !.count = count, !.ok = TRUE,
                              !.slot = << 0, header.field_count >>,
                              !.dirty = TRUE])
    /\ UNCHANGED << cfg, phase, regions, next_region_id, current_region_size,
                    overflow_regions, next_overflow_id, entries, ptr_to_entry,
                    mutex, blocks, crashed, stored, obs, tally >>

\* allocate_field_entries lines 321-330: a run in the current overflow region.
FieldEntriesOverflow(t, count) ==
    /\ CanStart(t)
    /\ count # 0
    /\ mutex.metadata = 0
    /\ ~FieldHeaderRoom(count)
    /\ FieldOverflowRoom(count)
    /\ nops' = nops + 1
    /\ overflow_regions' =
         StoreOverflowCount("field_entry_count",
                            current_overflow_region.field_entry_count + count)
    /\ Finish(t, [Loc0 EXCEPT !.op = "allocate_field_entries",
                              !.count = count, !.ok = TRUE,
                              !.slot = << current_overflow_region.id,
                                 current_overflow_region.field_entry_count >>,
                              !.dirty = TRUE])
    /\ UNCHANGED << cfg, phase, header, regions, next_region_id,
                    current_region_size, next_overflow_id, entries,
                    ptr_to_entry, mutex, blocks, crashed, stored, obs, tally >>

\* allocate_field_entries line 333 with shm.create succeeding.
FieldEntriesCreate(t, count) ==
    /\ CanStart(t)
    /\ count # 0
    /\ ~FieldHeaderRoom(count)
    /\ ~FieldOverflowRoom(count)
    /\ nops' = nops + 1
    /\ EnterCreateOverflow(t, [Loc0 EXCEPT !.op = "allocate_field_entries",
                                           !.count = count])
    /\ UNCHANGED << cfg, phase, header, regions, next_region_id,
                    current_region_size, overflow_regions, entries,
                    ptr_to_entry, last, blocks, crashed, stored, obs, tally >>

\* allocate_field_entries lines 333-334 with shm.create failing: nullptr.
FieldEntriesCreateFail(t, count) ==
    /\ CanStart(t)
    /\ count # 0
    /\ mutex.metadata = 0
    /\ ~FieldHeaderRoom(count)
    /\ ~FieldOverflowRoom(count)
    /\ nops' = nops + 1
    /\ next_overflow_id' = TakeOverflowId(next_overflow_id)
    /\ Finish(t, [Loc0 EXCEPT !.op = "allocate_field_entries",
                              !.count = count])
    /\ UNCHANGED << cfg, phase, header, regions, next_region_id,
                    current_region_size, overflow_regions, entries,
                    ptr_to_entry, mutex, blocks, crashed, stored, obs, tally >>

\* allocate_field_entries lines 337-344: the run at slot 0 of the new
\* overflow region, or nullptr when the region cannot hold it.
FieldEntriesNew(t) ==
    /\ pc[t] = "fl_new"
    /\ mutex' = Unlock(mutex, "metadata")
    /\ IF ULt(current_overflow_region.field_entry_capacity, loc[t].count)
       THEN /\ UNCHANGED overflow_regions
            /\ Finish(t, loc[t])
       ELSE /\ overflow_regions' =
                 StoreOverflowCount("field_entry_count", loc[t].count)
            /\ Finish(t, [loc[t] EXCEPT
                            !.ok = TRUE,
                            !.slot = << current_overflow_region.id, 0 >>,
                            !.dirty = TRUE])
    /\ UNCHANGED << cfg, phase, header, regions, next_region_id,
                    current_region_size, next_overflow_id, entries,
                    ptr_to_entry, blocks, nops, crashed, stored, obs, tally >>

\* total_object_count lines 348-352: the header count plus the count of every
\* overflow region, a uint32_t sum of small values here.
RECURSIVE SumObjectCounts(_)
SumObjectCounts(i) ==
    IF i = 0 THEN header.object_count
    ELSE SumObjectCounts(i - 1) + overflow_regions[i].object_entry_count

total_object_count == SumObjectCounts(Len(overflow_regions))

\* ---------------------------------------------------------- ObjectManager

\* Pointers the application may pass: the blocks it got from allocate, and
\* some it did not: nullptr, one into the descriptor of region 1 and the last
\* byte of region 1.
StrayPtrs ==
    { NullPtr, << 1, 0 >>,
      << 1, SizeofRegionDescriptor + cfg.initial_region_size - 1 >> }

Ptrs == { << b.region_id, b.offset >> : b \in blocks } \cup StrayPtrs

\* The bytes of an entry slot; fresh shared memory is zeroed.
EntryAt(slot) == IF slot \in DOMAIN entries THEN entries[slot] ELSE ZeroEntry

\* Whether slot lies inside its pool's memory.
SlotInPool(slot) ==
    IF slot[1] = 0 THEN slot[2] < cfg.object_dir_capacity
    ELSE \E i \in 1..Len(overflow_regions) :
            /\ overflow_regions[i].id = slot[1]
            /\ slot[2] < overflow_regions[i].object_entry_capacity

\* register_object line 379: the ObjectManager mutex is taken.
RegisterLock(t, ptr, type_id, label) ==
    /\ CanStart(t)
    /\ mutex.objects = 0
    /\ nops' = nops + 1
    /\ mutex' = [mutex EXCEPT !.objects = t]
    /\ loc' = [loc EXCEPT ![t] = [Loc0 EXCEPT !.op = "register_object",
                                   !.ptr = ptr, !.type_id = type_id,
                                   !.label = label]]
    /\ pc' = [pc EXCEPT ![t] = "ro_loc"]
    /\ UNCHANGED << cfg, phase, header, regions, next_region_id,
                    current_region_size, overflow_regions, next_overflow_id,
                    entries, ptr_to_entry, last, blocks, crashed, stored,
                    obs, tally >>

\* register_object lines 382-385: get_location under the RegionManager mutex.
RegisterLocate(t) ==
    /\ pc[t] = "ro_loc"
    /\ mutex.regions = 0
    /\ LET l == LocationOf(loc[t].ptr)
       IN IF l.found
          THEN /\ loc' = [loc EXCEPT ![t].region_id = l.region_id,
                                     ![t].offset = l.offset]
               /\ pc' = [pc EXCEPT ![t] = "ro_alloc"]
               /\ UNCHANGED << mutex, last >>
          ELSE /\ mutex' = Unlock(mutex, "objects")
               /\ Finish(t, loc[t])
    /\ UNCHANGED << cfg, phase, header, regions, next_region_id,
                    current_region_size, overflow_regions, next_overflow_id,
                    entries, ptr_to_entry, blocks, nops, crashed, stored,
                    obs, tally >>

\* allocate_object_entry line 239
NoHeaderRoom == FALSE
ObjectHeaderRoom == header.object_count < cfg.object_dir_capacity

\* allocate_object_entry lines 247-250
ObjectOverflowRoom ==
    /\ overflow_regions # << >>
    /\ current_overflow_region.object_entry_count
         < current_overflow_region.object_entry_capacity

\* allocate_object_entry line 243: &entries[count], count as read at line 238.
FirstHeaderSlot == << 0, 0 >>
NextHeaderSlot == << 0, header.object_count >>

\* allocate_object_entry lines 238-244: the next slot of the header pool.
ObjectEntryHeader(t) ==
    /\ pc[t] = "ro_alloc"
    /\ mutex.metadata = 0
    /\ ObjectHeaderRoom
    /\ header' = [header EXCEPT !.object_count = @ + 1]
    /\ loc' = [loc EXCEPT ![t].slot = NextHeaderSlot,
                          ![t].dirty = TRUE]
    /\ pc' = [pc EXCEPT ![t] = "ro_state"]
    /\ UNCHANGED << cfg, phase, regions, next_region_id, current_region_size,
                    overflow_regions, next_overflow_id, entries, ptr_to_entry,
                    mutex, last, blocks, nops, crashed, stored, obs, tally >>

\* allocate_object_entry lines 247-256: the next slot of the current overflow
\* region.
ObjectEntryOverflow(t) ==
    /\ pc[t] = "ro_alloc"
    /\ mutex.metadata = 0
    /\ ~ObjectHeaderRoom
    /\ ObjectOverflowRoom
    /\ overflow_regions' =
         StoreOverflowCount("object_entry_count",
                            current_overflow_region.object_entry_count + 1)
    /\ loc' = [loc EXCEPT ![t].slot =
                            << current_overflow_region.id,
                               current_overflow_region.object_entry_count >>,
                          ![t].dirty = TRUE]
    /\ pc' = [pc EXCEPT ![t] = "ro_state"]
    /\ UNCHANGED << cfg, phase, header, regions, next_region_id,
                    current_region_size, next_overflow_id, entries,
                    ptr_to_entry, mutex, last, blocks, nops, crashed, stored,
                    obs, tally >>

\* allocate_object_entry line 259 with shm.create succeeding.
ObjectEntryCreate(t) ==
    /\ pc[t] = "ro_alloc"
    /\ ~ObjectHeaderRoom
    /\ ~ObjectOverflowRoom
    /\ EnterCreateOverflow(t, loc[t])
    /\ UNCHANGED << cfg, phase, header, regions, next_region_id,
                    current_region_size, overflow_regions, entries,
                    ptr_to_entry, last, blocks, nops, crashed, stored, obs,
                    tally >>

\* allocate_object_entry lines 259-260 with shm.create failing, and
\* register_object lines 389-391: nullptr.
ObjectEntryCreateFail(t) ==
    /\ pc[t] = "ro_alloc"
    /\ mutex.metadata = 0
    /\ ~ObjectHeaderRoom
    /\ ~ObjectOverflowRoom
    /\ next_overflow_id' = TakeOverflowId(next_overflow_id)
    /\ mutex' = Unlock(mutex, "objects")
    /\ Finish(t, loc[t])
    /\ UNCHANGED << cfg, phase, header, regions, next_region_id,
                    current_region_size, overflow_regions, entries,
                    ptr_to_entry, blocks, nops, crashed, stored, obs, tally >>

\* allocate_object_entry lines 262-265: slot 0 of the new overflow region.
ObjectEntryNew(t) ==
    /\ pc[t] = "ob_new"
    /\ overflow_regions' = StoreOverflowCount("object_entry_count", 1)
    /\ mutex' = Unlock(mutex, "metadata")
    /\ loc' = [loc EXCEPT ![t].slot = << current_overflow_region.id, 0 >>,
                          ![t].dirty = TRUE]
    /\ pc' = [pc EXCEPT ![t] = "ro_state"]
    /\ UNCHANGED << cfg, phase, header, regions, next_region_id,
                    current_region_size, next_overflow_id, entries,
                    ptr_to_entry, last, blocks, nops, crashed, stored, obs,
                    tally >>

\* register_object line 394: state is stored first.
StoreState(e) == [e EXCEPT !.state = Alive]

\* register_object lines 395-399: the plain stores of the entry's body.
StoreBody(e, l) ==
    [e EXCEPT !.type_id = l.type_id,
              !.region_id = l.region_id,
              !.offset = l.offset,
              !.generation = 1,
              !.label = l.label]

\* register_object line 394.
RegisterStoreState(t) ==
    /\ pc[t] = "ro_state"
    /\ entries' = (loc[t].slot :> StoreState(EntryAt(loc[t].slot))) @@ entries
    /\ loc' = [loc EXCEPT ![t].dirty = TRUE]
    /\ pc' = [pc EXCEPT ![t] = "ro_body"]
    /\ UNCHANGED << cfg, phase, header, regions, next_region_id,
                    current_region_size, overflow_regions, next_overflow_id,
                    ptr_to_entry, mutex, last, blocks, nops, crashed, stored,
                    obs, tally >>

\* register_object lines 395-399.  The five plain stores are not ordered
\* with one another and no reader is told when one of them is done; they are
\* one step.
RegisterStoreBody(t) ==
    /\ pc[t] = "ro_body"
    /\ entries' = (loc[t].slot :> StoreBody(EntryAt(loc[t].slot), loc[t]))
                    @@ entries
    /\ pc' = [pc EXCEPT ![t] = "ro_seq"]
    /\ UNCHANGED << cfg, phase, header, regions, next_region_id,
                    current_region_size, overflow_regions, next_overflow_id,
                    ptr_to_entry, mutex, loc, last, blocks, nops, crashed, stored,
                    obs, tally >>

\* register_object line 394 when allocate_object_entry returned a slot past
\* the end of its pool: the store is out of bounds, and the process may die
\* on it (RegisterStoreState is the other outcome).
RegisterStoreCrash(t) ==
    /\ pc[t] = "ro_state"
    /\ ~SlotInPool(loc[t].slot)
    /\ crashed' = TRUE
    /\ UNCHANGED << cfg, phase, header, regions, next_region_id,
                    current_region_size, overflow_regions, next_overflow_id,
                    entries, ptr_to_entry, mutex, pc, loc, last, blocks,
                    nops, stored, obs, tally >>

\* register_object line 402
RegisterSequence(t) ==
    /\ pc[t] = "ro_seq"
    /\ header' = FetchAddSequence(header)
    /\ loc' = [loc EXCEPT ![t].dirty = FALSE]
    /\ pc' = [pc EXCEPT ![t] = "ro_map"]
    /\ UNCHANGED << cfg, phase, regions, next_region_id, current_region_size,
                    overflow_regions, next_overflow_id, entries, ptr_to_entry,
                    mutex, last, blocks, nops, crashed, stored, obs, tally >>

\* register_object lines 404-406: the map insert and the return.
RegisterMap(t) ==
    /\ pc[t] = "ro_map"
    /\ ptr_to_entry' = (loc[t].ptr :> loc[t].slot) @@ ptr_to_entry
    /\ mutex' = Unlock(mutex, "objects")
    /\ Finish(t, [loc[t] EXCEPT !.ok = TRUE])
    /\ tally' = [tally EXCEPT !.registered = @ + 1]
    /\ UNCHANGED << cfg, phase, header, regions, next_region_id,
                    current_region_size, overflow_regions, next_overflow_id,
                    entries, blocks, nops, crashed, stored, obs >>

\* destroy_object lines 412-413 when ptr is not in the map.
DestroyMiss(t, ptr) ==
    /\ CanStart(t)
    /\ mutex.objects = 0
    /\ ptr \notin DOMAIN ptr_to_entry
    /\ nops' = nops + 1
    /\ Finish(t, [Loc0 EXCEPT !.op = "destroy_object", !.ptr = ptr])
    /\ UNCHANGED << cfg, phase, header, regions, next_region_id,
                    current_region_size, overflow_regions, next_overflow_id,
                    entries, ptr_to_entry, mutex, blocks, crashed, stored,
                    obs, tally >>

\* destroy_object lines 414-415: state is the one field stored.
StoreRevived(e) == [e EXCEPT !.state = Alive]
StoreDestroyedWiped(e) == [ZeroEntry EXCEPT !.state = Destroyed]
StoreDestroyed(e) == [e EXCEPT !.state = Destroyed]

\* destroy_object lines 412-415: the state store.
DestroyStore(t, ptr) ==
    /\ CanStart(t)
    /\ mutex.objects = 0
    /\ ptr \in DOMAIN ptr_to_entry
    /\ nops' = nops + 1
    /\ mutex' = [mutex EXCEPT !.objects = t]
    /\ entries' = (ptr_to_entry[ptr] :>
                      StoreDestroyed(EntryAt(ptr_to_entry[ptr])))
                    @@ entries
    /\ loc' = [loc EXCEPT ![t] = [Loc0 EXCEPT !.op = "destroy_object",
                                   !.ptr = ptr,
                                   !.slot = ptr_to_entry[ptr],
                                   !.dirty = TRUE]]
    /\ pc' = [pc EXCEPT ![t] = "de_seq"]
    /\ UNCHANGED << cfg, phase, header, regions, next_region_id,
                    current_region_size, overflow_regions, next_overflow_id,
                    ptr_to_entry, last, blocks, crashed, stored, obs, tally >>

\* destroy_object line 416
DestroySequence(t) ==
    /\ pc[t] = "de_seq"
    /\ header' = FetchAddSequence(header)
    /\ loc' = [loc EXCEPT ![t].dirty = FALSE]
    /\ pc' = [pc EXCEPT ![t] = "de_erase"]
    /\ UNCHANGED << cfg, phase, regions, next_region_id, current_region_size,
                    overflow_regions, next_overflow_id, entries, ptr_to_entry,
                    mutex, last, blocks, nops, crashed, stored, obs, tally >>

\* destroy_object line 417 and the return.
DestroyErase(t) ==
    /\ pc[t] = "de_erase"
    /\ ptr_to_entry' = [p \in DOMAIN ptr_to_entry \ {loc[t].ptr} |->
                          ptr_to_entry[p]]
    /\ mutex' = Unlock(mutex, "objects")
    /\ Finish(t, [loc[t] EXCEPT !.ok = TRUE])
    /\ tally' = [tally EXCEPT !.destroyed = @ + 1]
    /\ UNCHANGED << cfg, phase, header, regions, next_region_id,
                    current_region_size, overflow_regions, next_overflow_id,
                    entries, blocks, nops, crashed, stored, obs >>

\* find_object lines 425-437: the scan of the header pool, lowest index
\* first, for an Alive entry whose label equals the argument.
ScanHeaderPoolBackwards(label) ==
    LET hits == { i \in 0..(header.object_count - 1) :
                    /\ EntryAt(<< 0, i >>).state = Alive
                    /\ EntryAt(<< 0, i >>).label = label }
    IN IF hits = {} THEN NoSlot
       ELSE << 0, CHOOSE i \in hits : \A j \in hits : j <= i >>
ScanHeaderPool(label) ==
    LET hits == { i \in 0..(header.object_count - 1) :
                    /\ EntryAt(<< 0, i >>).state = Alive
                    /\ EntryAt(<< 0, i >>).label = label }
    IN IF hits = {} THEN NoSlot
       ELSE << 0, CHOOSE i \in hits : \A j \in hits : i <= j >>

\* find_object: the whole call runs under the ObjectManager mutex and writes
\* nothing; it is not counted as an operation.
FindObject(t, label) ==
    /\ pc[t] = "idle"
    /\ phase = "ready"
    /\ ~crashed
    /\ (t = 1 \/ pc[1] # "idle")
    /\ mutex.objects = 0
    /\ LET found == ScanHeaderPool(label)
       IN Finish(t, [Loc0 EXCEPT !.op = "find_object", !.label = label,
                                 !.slot = found, !.ok = (found # NoSlot)])
    /\ UNCHANGED << cfg, phase, header, regions, next_region_id,
                    current_region_size, overflow_regions, next_overflow_id,
                    entries, ptr_to_entry, mutex, blocks, nops, crashed, stored,
                    obs, tally >>

\* get_all_objects lines 444-456: the Alive entries of the header pool, in
\* index order.
ScanAllHeaderPool ==
    SelectSeq([i \in 1..header.object_count |-> << 0, i - 1 >>],
              LAMBDA slot : EntryAt(slot).state = Alive)

\* get_all_objects: the whole call runs under the ObjectManager mutex and
\* writes nothing; it is not counted as an operation.
GetAllObjects(t) ==
    /\ pc[t] = "idle"
    /\ phase = "ready"
    /\ ~crashed
    /\ (t = 1 \/ pc[1] # "idle")
    /\ mutex.objects = 0
    /\ Finish(t, [Loc0 EXCEPT !.op = "get_all_objects",
                              !.all = ScanAllHeaderPool])
    /\ UNCHANGED << cfg, phase, header, regions, next_region_id,
                    current_region_size, overflow_regions, next_overflow_id,
                    entries, ptr_to_entry, mutex, blocks, nops, crashed,
                    stored, obs, tally >>

\* ----------------------------------------------------------------- Observer
\* Observer::refresh() after the documented protocol (its source is not part
\* of these files): load sequence as s0, re-walk the chains, re-materialise
\* the object list, load sequence as s1, retry when s1 # s0.

\* The retries refresh() makes before it gives up (8 is the suggested value).
MaxRetries == 2

\* Whether refresh() may try again after n retries.
NoLimit(n) == TRUE
RetriesLeft(n) == n < MaxRetries

\* The entry slots below the published counts of the header pool and of the
\* overflow pools on the chain.
PublishedSlots ==
    { << 0, i >> : i \in 0..(header.object_count - 1) }
      \cup UNION { { << overflow_regions[k].id, i >> :
                       i \in 0..(overflow_regions[k].object_entry_count - 1) } :
                   k \in 1..Len(overflow_regions) }

\* What an observer reads of one entry.
ObjectInfo(e) ==
    [type_id |-> e.type_id, region_id |-> e.region_id, offset |-> e.offset,
     label |-> e.label]

\* objects(): the Alive entries across the header and overflow pools.
AliveObjects ==
    { ObjectInfo(EntryAt(slot)) :
        slot \in { sl \in PublishedSlots : EntryAt(sl).state = Alive } }

\* The observer maps the shared memory read-only.
ObsFrame ==
    UNCHANGED << cfg, phase, header, regions, next_region_id,
                 current_region_size, overflow_regions, next_overflow_id,
                 entries, ptr_to_entry, mutex, pc, loc, last, blocks,
                 nops, crashed, stored, tally >>

\* refresh() is called by the observer process.
ObsRefresh ==
    /\ obs.pc = "idle"
    /\ phase = "ready"
    /\ obs' = [Obs0 EXCEPT !.pc = "load"]
    /\ ObsFrame

\* Step 1: s0 is loaded.
ObsLoad ==
    /\ obs.pc = "load"
    /\ obs' = [obs EXCEPT !.pc = "walk", !.s0 = header.sequence]
    /\ ObsFrame

\* Steps 2 and 3: the chains are walked and the object list rebuilt.
ObsWalk ==
    /\ obs.pc = "walk"
    /\ obs' = [obs EXCEPT !.pc = "check", !.objects = AliveObjects]
    /\ ObsFrame

\* Step 4 with s1 = s0: the snapshot is accepted.
ObsAccept ==
    /\ obs.pc = "check"
    /\ header.sequence = obs.s0
    /\ obs' = [obs EXCEPT !.pc = "idle", !.result = "ok"]
    /\ ObsFrame

\* Step 4 with s1 # s0 and retries left.
ObsRetry ==
    /\ obs.pc = "check"
    /\ header.sequence # obs.s0
    /\ RetriesLeft(obs.retries)
    /\ obs' = [obs EXCEPT !.pc = "load", !.retries = @ + 1]
    /\ ObsFrame

\* Step 4 with s1 # s0 and no retry left.
ObsGiveUp ==
    /\ obs.pc = "check"
    /\ header.sequence # obs.s0
    /\ ~RetriesLeft(obs.retries)
    /\ obs' = [obs EXCEPT !.pc = "idle", !.result = "SnapshotUnstable"]
    /\ ObsFrame

ObsStep ==
    \/ ObsRefresh \/ ObsLoad \/ ObsWalk
    \/ ObsAccept \/ ObsRetry \/ ObsGiveUp

\* ------------------------------------------------------------------- next

Next ==
    \E t \in Threads :
        \/ InitCreate(t)
        \/ InitCreateFail(t)
        \/ CreateRegionLink(t)
        \/ InitPublish(t)
        \/ \E a \in AllocArgs :
              \/ AllocateFit(t, a[1], a[2])
              \/ AllocateGrow(t, a[1], a[2])
              \/ AllocateGrowFail(t, a[1], a[2])
        \/ AllocateSequence(t)
        \/ AllocateStore(t)
        \/ LinkOverflow(t)
        \/ OverflowSequence(t)
        \/ TypeEntryHeader(t)
        \/ TypeEntryOverflow(t)
        \/ TypeEntryCreate(t)
        \/ TypeEntryCreateFail(t)
        \/ TypeEntryNew(t)
        \/ FieldEntriesNone(t)
        \/ \E count \in FieldCounts :
              \/ FieldEntriesHeader(t, count)
              \/ FieldEntriesOverflow(t, count)
              \/ FieldEntriesCreate(t, count)
              \/ FieldEntriesCreateFail(t, count)
        \/ FieldEntriesNew(t)
        \/ \E ptr \in Ptrs, type_id \in TypeIds, label \in Labels :
              RegisterLock(t, ptr, type_id, label)
        \/ RegisterLocate(t)
        \/ ObjectEntryHeader(t)
        \/ ObjectEntryOverflow(t)
        \/ ObjectEntryCreate(t)
        \/ ObjectEntryCreateFail(t)
        \/ ObjectEntryNew(t)
        \/ RegisterStoreState(t)
        \/ RegisterStoreBody(t)
        \/ RegisterStoreCrash(t)
        \/ RegisterSequence(t)
        \/ RegisterMap(t)
        \/ \E ptr \in Ptrs :
              \/ DestroyMiss(t, ptr)
              \/ DestroyStore(t, ptr)
        \/ DestroySequence(t)
        \/ DestroyErase(t)
        \/ \E label \in Labels : FindObject(t, label)
        \/ \E ptr \in Ptrs : GetLocation(t, ptr)
        \/ GetAllObjects(t)

Spec == Init /\ [][Next]_vars

\* The producer, one thread registering and destroying objects, with an
\* observer process running refresh() alongside.
ObserverNext ==
    \/ InitCreate(1)
    \/ CreateRegionLink(1)
    \/ InitPublish(1)
    \/ AllocateFit(1, 16, 8)
    \/ \E ptr \in Ptrs : RegisterLock(1, ptr, 1, "a")
    \/ RegisterLocate(1)
    \/ ObjectEntryHeader(1)
    \/ ObjectEntryOverflow(1)
    \/ ObjectEntryCreate(1)
    \/ LinkOverflow(1)
    \/ OverflowSequence(1)
    \/ ObjectEntryNew(1)
    \/ RegisterStoreState(1)
    \/ RegisterStoreBody(1)
    \/ RegisterStoreCrash(1)
    \/ RegisterSequence(1)
    \/ RegisterMap(1)
    \/ \E ptr \in Ptrs : DestroyStore(1, ptr)
    \/ DestroySequence(1)
    \/ DestroyErase(1)
    \/ ObsRefresh
    \/ ObsLoad
    \/ ObsWalk
    \/ ObsAccept
    \/ ObsRetry
    \/ ObsGiveUp

ObserverSpec == Init /\ [][ObserverNext]_vars

\* The observer process is scheduled: a refresh() under way takes its steps.
ObserverFairSpec == ObserverSpec /\ WF_vars(ObsStep)

\* ----------------------------------------------------------------- claims

\* Slots whose entry a register_object call is still writing.
Registering(slot) ==
    \E t \in Threads :
        /\ pc[t] \in {"ro_state", "ro_body", "ro_seq", "ro_map"}
        /\ loc[t].slot = slot

\* Every field of the entry holds a value register_object or destroy_object
\* stores.
FullyInitialised(e) ==
    /\ e.state \in {Alive, Destroyed}
    /\ e.type_id \in TypeIds
    /\ e.region_id # 0
    /\ e.generation = 1
    /\ e.label \in Labels

\* The object pools an observer can reach, as <<pool, count, capacity>>.
ObjectPools ==
    { << 0, header.object_count, cfg.object_dir_capacity >> } \cup
    { << overflow_regions[i].id, overflow_regions[i].object_entry_count,
         overflow_regions[i].object_entry_capacity >> :
      i \in 1..Len(overflow_regions) }

\* C1: whenever an observer can read an ObjectEntry whose state is Alive,
\* its type_id, region_id, offset, generation (= 1) and label are already
\* written (state is stored last).
C1_AliveEntryIsWritten ==
    \A p \in ObjectPools : \A i \in 0..(p[2] - 1) :
        LET e == EntryAt(<< p[1], i >>)
        IN e.state = Alive =>
              /\ e.type_id \in TypeIds
              /\ e.region_id # 0
              /\ e.generation = 1
              /\ e.label \in Labels

\* C2: in every state, intermediate ones included, every entry with index
\* below the count of its pool is fully initialised (count is raised only
\* after the entry's body is written).
C2_EntriesBelowCountInitialised ==
    \A p \in ObjectPools : \A i \in 0..(p[2] - 1) :
        FullyInitialised(EntryAt(<< p[1], i >>))

\* C3: in every state, every pool's count is at most its capacity: the three
\* header pools and the three sub-pools of every overflow region.
C3_CountWithinCapacity ==
    /\ ULe(header.object_count, cfg.object_dir_capacity)
    /\ ULe(header.type_count, cfg.type_registry_capacity)
    /\ ULe(header.field_count, cfg.field_entries_capacity)
    /\ \A i \in 1..Len(overflow_regions) :
          LET o == overflow_regions[i]
          IN /\ ULe(o.object_entry_count, o.object_entry_capacity)
             /\ ULe(o.type_entry_count, o.type_entry_capacity)
             /\ ULe(o.field_entry_count, o.field_entry_capacity)

\* C4: the used cursor of every data region never decreases and never
\* exceeds the region's size.
C4_UsedMonotoneWithinSize ==
    [][\A i \in 1..Len(regions) :
          /\ ULe(regions[i].used, regions'[i].used)
          /\ ULe(regions'[i].used, regions'[i].size)]_vars

\* C5: once register_object has returned, every Alive entry (of a slot inside
\* its pool) names an existing data region whose used cursor covers
\* offset + size of the entry's type.
C5_AliveEntryInsideUsed ==
    \A s \in DOMAIN entries :
        (entries[s].state = Alive /\ ~Registering(s) /\ SlotInPool(s)) =>
            \E i \in 1..Len(regions) :
                /\ regions[i].id = entries[s].region_id
                /\ ULe(entries[s].offset + TypeSize(entries[s].type_id),
                       regions[i].used)

\* C6: no two Alive entries (of slots inside their pools, register_object
\* having returned) carry the same label.
C6_AliveLabelsUnique ==
    \A s1, s2 \in DOMAIN entries :
        ( /\ s1 # s2
          /\ entries[s1].state = Alive /\ ~Registering(s1) /\ SlotInPool(s1)
          /\ entries[s2].state = Alive /\ ~Registering(s2) /\ SlotInPool(s2) )
        => entries[s1].label # entries[s2].label

\* C7: no call returns having made a change an observer can see (a region
\* or overflow region linked, a pool count raised, an entry's state stored)
\* without a later increase of header.sequence.
C7_MutationThenSequence == ~last.dirty

\* C8: header.sequence never decreases, whatever the interleaving of the
\* producer threads.
C8_SequenceNeverDecreases ==
    [][header'.sequence >= header.sequence]_vars

\* C8 witness: sequence has been bumped twice, by two threads that are both
\* still inside their calls.
C8_TwoThreadsBumped ==
    /\ header.sequence >= 2
    /\ \A t \in Threads : pc[t] \in {"al_store", "ro_map", "de_erase",
                                     "ty_new", "fl_new", "ob_new"}

\* C9: the count of every pool never decreases.
C9_CountsNeverDecrease ==
    [][/\ ULe(header.object_count, header'.object_count)
       /\ ULe(header.type_count, header'.type_count)
       /\ ULe(header.field_count, header'.field_count)
       /\ \A i \in 1..Len(overflow_regions) :
             /\ ULe(overflow_regions[i].object_entry_count,
                    overflow_regions'[i].object_entry_count)
             /\ ULe(overflow_regions[i].type_entry_count,
                    overflow_regions'[i].type_entry_count)
             /\ ULe(overflow_regions[i].field_entry_count,
                    overflow_regions'[i].field_entry_count)]_vars

\* C10 as stated: the k-th data region that exists has id k, also after
\* failed create_region attempts.
C10_KthRegionHasIdK ==
    \A k \in 1..Len(regions) : regions[k].id = k

\* C10 amended: region ids are unique and strictly increase in creation
\* order, the first is 1, the descriptor carries the id, and the k-th region
\* has an id of at least k (every create_region attempt takes an id).
C10_RegionIdsIncrease ==
    /\ \A k \in 1..Len(regions) :
          /\ regions[k].id >= k
          /\ regions[k].id < next_region_id
          /\ regions[k].region_id = regions[k].id
    /\ \A j, k \in 1..Len(regions) : j < k => regions[j].id < regions[k].id
    /\ regions # << >> => regions[1].id = 1

\* C10 witness: a second region exists and took id 3, the create before it
\* having failed.
C10_IdSkipped ==
    /\ Len(regions) = 2
    /\ regions[2].id = 3
    /\ regions[1].next_region_id = 3

\* Object entry slots that lie inside their pool and hold an Alive entry.
AliveInPools ==
    { s \in DOMAIN entries : SlotInPool(s) /\ entries[s].state = Alive }

\* No thread is inside register_object or destroy_object.
ObjectsQuiet == \A t \in Threads : loc[t].op \notin {"register_object",
                                                     "destroy_object"}

\* C11: registering past the capacity of the header pool succeeds: every
\* register_object call with a pointer inside a region runs to its return (the
\* process does not die), the entry it returns lies inside the header pool or
\* an overflow object pool, and with nothing destroyed the number of Alive
\* entries over all these pools equals total_object_count().
C11_SpillSucceeds ==
    /\ ~crashed
    /\ (last.op = "register_object" /\ last.ok) => SlotInPool(last.slot)
    /\ ( /\ ObjectsQuiet
         /\ \A s \in DOMAIN entries : entries[s].state = Alive )
       => Cardinality(AliveInPools) = total_object_count

\* C12: an allocate call that does not fit the current region, with
\* size + sizeof(RegionDescriptor) <= max_region_size and the shared memory
\* created, returns a block that lies inside the region it created, after
\* that region's descriptor.
C12_GrownBlockInsideNewRegion ==
    ( /\ last.op = "allocate"
      /\ last.region.id # 0
      /\ last.size >= 0
      /\ last.size + SizeofRegionDescriptor <= cfg.max_region_size )
    => /\ last.ok
       /\ last.ret[1] = last.region.id
       /\ current_region.id = last.region.id
       /\ last.ret[2] >= SizeofRegionDescriptor
       /\ last.ret[2] + last.size <= last.region.size

\* Indices of the header object pool whose entry is Alive and carries label.
HeaderMatches(label) ==
    { i \in 0..(header.object_count - 1) :
        /\ EntryAt(<< 0, i >>).state = Alive
        /\ EntryAt(<< 0, i >>).label = label }

\* C13: find_object(label) returns the lowest-index entry of the header pool
\* that is Alive and carries exactly that label, and null when the header
\* pool has none; what it returns is never Destroyed and never an entry of an
\* overflow pool.
C13_FindReturnsFirstAliveMatch ==
    [][(last'.op = "find_object" /\ last' # last) =>
          LET hits == HeaderMatches(last'.label)
          IN /\ hits = {} => last'.slot = NoSlot /\ ~last'.ok
             /\ hits # {} =>
                   /\ last'.ok
                   /\ last'.slot[1] = 0
                   /\ last'.slot[2] \in hits
                   /\ \A j \in hits : last'.slot[2] <= j
                   /\ EntryAt(last'.slot).state = Alive
                   /\ EntryAt(last'.slot).label = last'.label]_vars

\* C13 witness: two Alive entries of the header pool carry the label asked
\* for and find_object returned the one at index 0.
C13_FoundFirstOfTwo ==
    /\ last.op = "find_object"
    /\ last.slot = << 0, 0 >>
    /\ HeaderMatches(last.label) = {0, 1}

\* Some overflow region holds an entry in the sub-pool counted by field.
OverflowHolds(field) ==
    \E i \in 1..Len(overflow_regions) : overflow_regions[i][field] # 0

HandedOut ==
    DOMAIN entries
      \cup { ptr_to_entry[p] : p \in DOMAIN ptr_to_entry }
      \cup { loc[t].slot : t \in { u \in Threads : loc[u].slot # NoSlot
                                     /\ loc[u].op = "register_object" } }

InSomeRegion(ptr) ==
    \E i \in 1..Len(regions) :
        /\ regions[i].id = ptr[1]
        /\ 0 <= ptr[2]
        /\ ptr[2] < regions[i].size

\* C17: a register_object call whose pointer lies in no region, or whose
\* entry is refused, returns null; up to and at that return the call has
\* changed no pool count, no entry, no region, not sequence and not the
\* pointer map.
C17_FailedRegisterChangesNothing ==
    [][\A t \in Threads :
          /\ (pc'[t] \in {"ro_loc", "ro_alloc"} /\ pc'[t] # pc[t]) =>
                UNCHANGED << header, entries, overflow_regions, regions,
                             ptr_to_entry >>
          /\ (loc[t].op = "register_object" /\ pc'[t] = "idle") =>
                /\ ~InSomeRegion(last'.ptr) => ~last'.ok
                /\ ~last'.ok =>
                      /\ pc[t] \in {"ro_loc", "ro_alloc"}
                      /\ last'.slot = NoSlot
                      /\ ~last'.dirty
                      /\ UNCHANGED << header, entries, overflow_regions,
                                      regions, ptr_to_entry >>]_vars

\* C17 witness: after one object was registered, a register_object call with
\* a pointer inside a region was refused an entry and returned null.
C17_RefusedAfterLocate ==
    /\ last.op = "register_object"
    /\ ~last.ok
    /\ last.region_id # 0
    /\ Cardinality(DOMAIN entries) = 1
    /\ total_object_count = 1

\* C18: allocate_field_entries(n), n > 0, fails only when a new overflow
\* region could not hold n entries (or its shared memory could not be
\* created), and a call that succeeds returns a run of n entries that lies
\* inside the pool it was taken from.  A negative count stands for a value
\* of 2^31 or more, above every capacity.
C18_FailsExactlyWhenTooLarge ==
    (last.op = "allocate_field_entries" /\ last.count # 0) =>
        /\ last.ok =>
              /\ last.count > 0
              /\ last.slot[2] >= 0
              /\ last.slot[2] + last.count <=
                    (IF last.slot[1] = 0 THEN cfg.field_entries_capacity
                     ELSE FieldCapacity)
        /\ (~last.ok /\ last.overflow.id # 0) =>
              ULt(FieldCapacity, last.count)

\* C19: generation is 1 after register_object and is incremented by every
\* later state change, so a Destroyed entry has a generation above 1.
C19_DestroyedGenerationAboveOne ==
    \A s \in DOMAIN entries :
        /\ (entries[s].state = Alive /\ ~Registering(s)) =>
              entries[s].generation >= 1
        /\ entries[s].state = Destroyed => entries[s].generation > 1

\* Thread t takes a step of destroy_object.
DestroyStep(t) ==
    \/ pc[t] = "idle" /\ pc'[t] = "de_seq"
    \/ pc[t] \in {"de_seq", "de_erase"} /\ pc'[t] # pc[t]
    \/ pc' = pc /\ nops' # nops /\ last'.op = "destroy_object"

\* C20: the steps of destroy_object change nothing but the state field of
\* the destroyed entry, header.sequence and the pointer map: every region and
\* overflow descriptor (cursors and pool counts), every header count, every
\* other entry and the other fields of the destroyed entry stay as they
\* were, and at the return the entry is not among the Alive entries.
C20_DestroyFrame ==
    [][\A t \in Threads : DestroyStep(t) =>
          /\ UNCHANGED << regions, overflow_regions, blocks >>
          /\ header' = [header EXCEPT !.sequence = header'.sequence]
          /\ DOMAIN entries' = DOMAIN entries
          /\ \A s \in DOMAIN entries :
                IF pc'[t] = "de_seq" /\ s = loc'[t].slot
                THEN entries'[s] = [entries[s] EXCEPT !.state = Destroyed]
                ELSE entries'[s] = entries[s]
          /\ \A p \in DOMAIN ptr_to_entry' :
                p \in DOMAIN ptr_to_entry /\ ptr_to_entry'[p] = ptr_to_entry[p]
          /\ (pc[t] = "de_erase") =>
                /\ entries'[last'.slot].state # Alive
                /\ last'.slot \notin AliveInPools']_vars

\* C20 witness: destroy_object has returned; the entry is Destroyed with its
\* type, location, generation and label as registered, and the header object
\* count still covers it.
C20_DestroyedKeepsBody ==
    /\ last.op = "destroy_object"
    /\ last.ok
    /\ last.slot = << 0, 0 >>
    /\ header.object_count = 1
    /\ EntryAt(last.slot).state = Destroyed
    /\ EntryAt(last.slot).label \in Labels
    /\ EntryAt(last.slot).type_id \in TypeIds
    /\ EntryAt(last.slot).region_id = 1

\* C21: no operation of the managers stores into the payload of a data
\* region: every store into a data-region mapping lies inside the
\* descriptor, i.e. below offset sizeof(RegionDescriptor).
C21_NoPayloadStore ==
    \A s \in stored : s[3] >= 0 /\ s[3] + s[4] <= SizeofRegionDescriptor

\* allocate grew a second region and handed out a block of it, and an object
\* was registered afterwards.
C21_BlockHandedOutAndRegistered ==
    /\ Len(regions) = 2
    /\ \E b \in blocks : b.region_id = 2 /\ b.size > 0
    /\ << "allocate", 2, 24, 8 >> \in stored
    /\ << "allocate", 1, 32, 8 >> \in stored
    /\ last.op = "register_object" /\ last.ok

\* The steps of a call thread t has entered.
Continue(t) ==
    \/ CreateRegionLink(t) \/ InitPublish(t)
    \/ AllocateSequence(t) \/ AllocateStore(t)
    \/ LinkOverflow(t) \/ OverflowSequence(t)
    \/ TypeEntryNew(t) \/ FieldEntriesNew(t)
    \/ RegisterLocate(t)
    \/ ObjectEntryHeader(t) \/ ObjectEntryOverflow(t)
    \/ ObjectEntryCreate(t) \/ ObjectEntryCreateFail(t) \/ ObjectEntryNew(t)
    \/ RegisterStoreState(t) \/ RegisterStoreBody(t) \/ RegisterStoreCrash(t)
    \/ RegisterSequence(t) \/ RegisterMap(t)
    \/ DestroySequence(t) \/ DestroyErase(t)

\* Where a thread is while it holds each manager's mutex.
InRegions(t) == pc[t] \in {"cr_link", "init_publish", "al_seq", "al_store"}
InMetadata(t) == pc[t] \in {"ov_link", "ov_seq", "ty_new", "fl_new", "ob_new"}
InObjects(t) ==
    \/ pc[t] \in {"ro_loc", "ro_alloc", "ro_state", "ro_body", "ro_seq",
                  "ro_map", "de_seq", "de_erase"}
    \/ InMetadata(t) /\ loc[t].op = "register_object"

\* C22: the managers' mutexes never deadlock and keep each manager's
\* mutations mutually exclusive: a mutex is held exactly by the one thread
\* that is inside that manager's critical section, and while the process
\* lives every thread inside a call can take its next step or waits for a
\* mutex whose holder can take its next step.
C22_NoDeadlockAndMutualExclusion ==
    /\ \A t \in Threads :
          /\ InRegions(t) <=> mutex.regions = t
          /\ InMetadata(t) <=> mutex.metadata = t
          /\ InObjects(t) <=> mutex.objects = t
    /\ \A t, u \in Threads :
          t # u => /\ ~(InRegions(t) /\ InRegions(u))
                   /\ ~(InMetadata(t) /\ InMetadata(u))
                   /\ ~(InObjects(t) /\ InObjects(u))
    /\ ~crashed =>
          \A t \in Threads :
             pc[t] # "idle" =>
                \/ ENABLED Continue(t)
                \/ \E u \in Threads \ {t} :
                      /\ ENABLED Continue(u)
                      /\ \/ pc[t] = "ro_loc" /\ mutex.regions = u
                         \/ pc[t] = "ro_alloc" /\ mutex.metadata = u

\* register_object waits for the RegionManager mutex inside get_location,
\* holding the ObjectManager mutex, while allocate is creating a region.
C22_RegisterWaitsForAllocate ==
    \E t, u \in Threads :
        /\ pc[t] = "ro_loc" /\ mutex.objects = t
        /\ InRegions(u) /\ mutex.regions = u
        /\ ~ENABLED Continue(t)

\* C23: refresh() always terminates: it never retries more than MaxRetries
\* times, and a call under way returns, either accepting the snapshot
\* (s1 = s0) or surfacing SnapshotUnstable, while the producer mutates.
C23_RefreshTerminates ==
    /\ [](obs.retries <= MaxRetries)
    /\ (obs.pc # "idle") ~>
          (obs.pc = "idle" /\ obs.result \in {"ok", "SnapshotUnstable"})

\* The producer bumped sequence during every attempt: refresh() gave up.
C23_GaveUpAfterRetries ==
    /\ obs.pc = "idle"
    /\ obs.result = "SnapshotUnstable"
    /\ obs.retries = MaxRetries
    /\ header.sequence # obs.s0

\* C24: a snapshot refresh() accepts (s1 = s0) is the producer's state
\* between two complete operations; so every object in it is one a completed
\* register_object call wrote: it carries that call's type, location and
\* label.
C24_AcceptedSnapshotIsConsistent ==
    (obs.pc = "idle" /\ obs.result = "ok") =>
        \A o \in obs.objects :
            /\ o.label \in Labels
            /\ o.type_id \in TypeIds
            /\ LocationOf(<< o.region_id, o.offset >>).found

\* The data-region mappings that exist: those of regions_ and the one a
\* create_region call has made and not linked yet.
DataMappings ==
    { regions[i] : i \in 1..Len(regions) }
      \cup { loc[t].region : t \in { u \in Threads : pc[u] = "cr_link" } }

\* The ids met by following next_region_id from id, for at most n regions;
\* -1 stands for an id no mapping has.
RECURSIVE RegionChain(_, _)
RegionChain(id, n) ==
    IF id = 0 \/ n = 0 THEN << >>
    ELSE IF \A r \in DataMappings : r.id # id THEN << -1 >>
    ELSE LET r == CHOOSE m \in DataMappings : m.id = id
         IN << id >> \o RegionChain(r.next_region_id, n - 1)

\* The descriptor fields create_region writes are written.
DescriptorInitialised(r) ==
    /\ r.magic = REGION_MAGIC
    /\ r.region_id = r.id
    /\ r.shm_name = r.id
    /\ r.size > SizeofRegionDescriptor

\* C25: first_region_id is published as 1, and only once region 1 has its
\* descriptor; from then on the chain from first_region_id over
\* next_region_id visits exactly the regions of regions_, once each and in
\* creation order, ending at next_region_id 0; every region on the chain has
\* an initialised descriptor.
C25_RegionChain ==
    /\ header.first_region_id \in {0, 1}
    /\ header.first_region_id = 1 <=> phase = "ready"
    /\ phase = "ready" =>
          /\ regions # << >> /\ regions[1].id = 1
          /\ RegionChain(header.first_region_id, Len(regions) + 1)
               = [i \in 1..Len(regions) |-> regions[i].id]
          /\ regions[Len(regions)].next_region_id = 0
    /\ \A i \in 1..Len(regions) : DescriptorInitialised(regions[i])

\* allocate has grown the session by a second region, linked from the first;
\* a later growth is creating a third that nothing links to yet.
C25_ChainOfTwoAndOnePending ==
    /\ Len(regions) = 2
    /\ regions[1].next_region_id = regions[2].id
    /\ \E t \in Threads : pc[t] = "cr_link" /\ loc[t].region.id > regions[2].id

\* The overflow mappings that exist: those of overflow_regions_ and the one
\* a create_overflow_region call has made and not linked yet.
OverflowMappings ==
    { overflow_regions[i] : i \in 1..Len(overflow_regions) }
      \cup { loc[t].overflow : t \in { u \in Threads : pc[u] = "ov_link" } }

\* The ids met by following next_region_id from id, for at most n overflow
\* regions; -1 stands for an id no mapping has.
RECURSIVE OverflowChain(_, _)
OverflowChain(id, n) ==
    IF id = 0 \/ n = 0 THEN << >>
    ELSE IF \A r \in OverflowMappings : r.id # id THEN << -1 >>
    ELSE LET r == CHOOSE m \in OverflowMappings : m.id = id
         IN << id >> \o OverflowChain(r.next_region_id, n - 1)

\* The descriptor fields create_overflow_region writes are written.
OverflowInitialised(r) ==
    /\ r.magic = OVERFLOW_MAGIC
    /\ r.region_id = r.id
    /\ r.shm_name = r.id
    /\ r.object_entry_capacity = ObjectCapacity
    /\ r.type_entry_capacity = TypeCapacity
    /\ r.field_entry_capacity = FieldCapacity

\* The overflow chain is the sequence overflow_regions_, whose last element
\* has no successor, and every region on it has its descriptor.
OverflowChainIntact ==
    /\ OverflowChain(header.first_overflow_region_id,
                     Len(overflow_regions) + 1)
         = [i \in 1..Len(overflow_regions) |-> overflow_regions[i].id]
    /\ overflow_regions # << >> =>
          overflow_regions[Len(overflow_regions)].next_region_id = 0
    /\ \A i \in 1..Len(overflow_regions) :
          OverflowInitialised(overflow_regions[i])

\* C26: the first overflow region is linked from first_overflow_region_id,
\* a later one from next_region_id of the previous one; the link is stored
\* after the new descriptor is initialised and sequence is bumped after the
\* link; the chain from first_overflow_region_id always visits every
\* overflow region once, in creation order, and ends at next_region_id 0.
C26_OverflowChain ==
    /\ []OverflowChainIntact
    /\ [][\A t \in Threads :
            /\ (pc[t] = "ov_link" /\ pc'[t] # "ov_link") =>
                  /\ OverflowInitialised(loc[t].overflow)
                  /\ loc[t].overflow.next_region_id = 0
                  /\ pc'[t] = "ov_seq"
                  /\ header'.sequence = header.sequence
                  /\ IF overflow_regions = << >>
                     THEN header'.first_overflow_region_id
                            = loc[t].overflow.id
                     ELSE /\ overflow_regions'[Len(overflow_regions)]
                                .next_region_id = loc[t].overflow.id
                          /\ header'.first_overflow_region_id
                               = header.first_overflow_region_id
            /\ (pc[t] = "ov_seq" /\ pc'[t] # "ov_seq") =>
                  /\ header'.sequence = header.sequence + 1
                  /\ overflow_regions' = overflow_regions
                  /\ loc[t].overflow.id
                       = overflow_regions[Len(overflow_regions)].id]_vars

\* A second overflow region hangs off the first and sequence was bumped for
\* both.
C26_TwoOverflowRegionsLinked ==
    /\ Len(overflow_regions) = 2
    /\ header.first_overflow_region_id = overflow_regions[1].id
    /\ overflow_regions[1].next_region_id = overflow_regions[2].id
    /\ header.sequence >= 2
    /\ \A t \in Threads : pc[t] = "idle"

\* C27: a region created by growth has the size max(size + descriptor size,
\* 2 x current_region_size) clamped to max_region_size; no region created by
\* growth records a size above max_region_size in its descriptor.
C27_GrownRegionWithinMax ==
    \A r \in DataMappings :
        r.id # 1 => ULe(r.size, cfg.max_region_size)

\* Thread t returns from a successful allocate in this step.
AllocateReturns(t) ==
    /\ \/ pc[t] = "al_store" /\ pc'[t] = "idle"
       \/ pc' = pc /\ nops' # nops /\ last'.op = "allocate"
    /\ last'.op = "allocate"
    /\ last'.ok

\* C28: a successful allocate(size, alignment) returns base + aligned of the
\* region it chose, aligned being the smallest multiple of alignment at or
\* above that region's used before the store, and leaves used = aligned +
\* size; the returned offset is a multiple of alignment and at least the
\* descriptor size.
C28_AllocateReturnsAlignedCursor ==
    [][\A t \in Threads :
         AllocateReturns(t) =>
            LET region == current_region
                aligned == last'.ret[2]
            IN /\ last'.ret[1] = region.id
               /\ aligned % last'.alignment = 0
               /\ ULe(region.used, aligned)
               /\ ULt(aligned - region.used, last'.alignment)
               /\ regions'[Len(regions)].used = aligned + last'.size
               /\ ULe(SizeofRegionDescriptor, aligned)]_vars

\* The pool of each metadata allocator: the operation that allocates from
\* it and the count and capacity fields in the header and in an overflow
\* descriptor.
MetadataPools ==
    [register_object |->
        [count |-> "object_count", capacity |-> "object_dir_capacity",
         entry_count |-> "object_entry_count",
         entry_capacity |-> "object_entry_capacity"],
     allocate_type_entry |->
        [count |-> "type_count", capacity |-> "type_registry_capacity",
         entry_count |-> "type_entry_count",
         entry_capacity |-> "type_entry_capacity"],
     allocate_field_entries |->
        [count |-> "field_count", capacity |-> "field_entries_capacity",
         entry_count |-> "field_entry_count",
         entry_capacity |-> "field_entry_capacity"]]

\* The number of entries call r asks for; a negative count stands for an
\* unsigned count of 2^31 or more.
RunLength(r) == IF r.op # "allocate_field_entries" THEN 1 ELSE r.count

\* A pool holding have entries of capacity has room for n more.
HasRoom(have, n, capacity) == n >= 0 /\ have + n <= capacity

\* The header pool has room for call r; the current overflow region has.
HeaderHasRoom(r) ==
    HasRoom(header[MetadataPools[r.op].count], RunLength(r),
            cfg[MetadataPools[r.op].capacity])
OverflowHasRoom(r) ==
    /\ overflow_regions # << >>
    /\ HasRoom(current_overflow_region[MetadataPools[r.op].entry_count],
               RunLength(r),
               current_overflow_region[MetadataPools[r.op].entry_capacity])

\* Call r got its entries without creating a region: from the header pool
\* if that had room, else from the current overflow region, which had.
TakenInOrder(r) ==
    IF r.slot[1] = 0
    THEN /\ HeaderHasRoom(r)
         /\ r.slot[2] = header[MetadataPools[r.op].count]
    ELSE /\ ~HeaderHasRoom(r)
         /\ OverflowHasRoom(r)
         /\ r.slot[1] = current_overflow_region.id
         /\ r.slot[2] =
              current_overflow_region[MetadataPools[r.op].entry_count]

\* C30: a metadata allocator takes the next slot of the header pool if that
\* has room, else the next slot of the current overflow region's sub-pool if
\* that has room, else creates one overflow region and takes its slot 0; it
\* never takes from an overflow region with a successor, and creates only
\* when both earlier locations lack room.
C30_ThreeLocationsInOrder ==
    [][/\ ( /\ pc' = pc /\ nops' # nops /\ last'.ok
            /\ last'.op \in {"allocate_type_entry",
                             "allocate_field_entries"} )
            => TakenInOrder(last')
       /\ \A t \in Threads :
            /\ (pc[t] = "ro_alloc" /\ pc'[t] = "ro_state")
                 => TakenInOrder(loc'[t])
            /\ (pc[t] # "ov_link" /\ pc'[t] = "ov_link")
                 => /\ ~HeaderHasRoom(loc'[t])
                    /\ ~OverflowHasRoom(loc'[t])
            /\ (pc[t] \in {"ty_new", "fl_new"} /\ pc'[t] = "idle")
                 => /\ last'.ok
                    /\ last'.slot = << loc[t].overflow.id, 0 >>
                    /\ loc[t].overflow.id = current_overflow_region.id
            /\ (pc[t] = "ob_new" /\ pc'[t] = "ro_state")
                 => /\ loc'[t].slot = << loc[t].overflow.id, 0 >>
                    /\ loc[t].overflow.id = current_overflow_region.id]_vars

\* ptr lies in [base, base + size) of a region.
InsideSomeRegion(ptr) ==
    \E i \in 1..Len(regions) :
        /\ ptr[1] = regions[i].id
        /\ 0 <= ptr[2] /\ ULt(ptr[2], regions[i].size)

\* C29: get_location(ptr) returns true exactly when ptr lies in
\* [base, base + size) of some region, and then get_region_data(region_id)
\* + offset = ptr; for a pointer a successful allocate returned it gives the
\* block's region and aligned offset; when it returns false it leaves
\* region_id and offset as they were.
C29_LocationRoundTrip ==
    [][(pc' = pc /\ nops' # nops /\ last'.op = "get_location") =>
         LET ptr == last'.ptr
             base == get_region_data(last'.region_id)
         IN /\ last'.ok <=> InsideSomeRegion(ptr)
            /\ last'.ok => << base[1], base[2] + last'.offset >> = ptr
            /\ \A b \in blocks :
                  ptr = << b.region_id, b.offset >> =>
                     /\ last'.ok
                     /\ last'.region_id = b.region_id
                     /\ last'.offset = b.offset
            /\ ~last'.ok => /\ last'.region_id = CallerOutputs.region_id
                            /\ last'.offset = CallerOutputs.offset]_vars

\* The count and the capacity of the field pool with id pool (0: the header
\* pool), before the step.
FieldPoolCount(pool) ==
    IF pool = 0 THEN header.field_count
    ELSE LET r == CHOOSE m \in OverflowMappings : m.id = pool
         IN r.field_entry_count
FieldPoolCapacity(pool) ==
    IF pool = 0 THEN cfg.field_entries_capacity
    ELSE LET r == CHOOSE m \in OverflowMappings : m.id = pool
         IN r.field_entry_capacity

\* The count of the field pool with id pool after the step.
FieldPoolCountAfter(pool) ==
    IF pool = 0 THEN header'.field_count
    ELSE LET i == CHOOSE k \in 1..Len(overflow_regions') :
                     overflow_regions'[k].id = pool
         IN overflow_regions'[i].field_entry_count

\* An allocate_field_entries call returns in this step.
FieldEntriesReturns ==
    /\ last'.op = "allocate_field_entries"
    /\ \/ pc' = pc /\ nops' # nops
       \/ \E t \in Threads : pc[t] = "fl_new" /\ pc'[t] = "idle"

\* C31: a successful allocate_field_entries(n) returns n consecutive slots
\* inside one field pool, starting at that pool's count, and raises the
\* count by exactly n (so the run is disjoint from every earlier run);
\* allocate_field_entries(0) returns null and changes nothing.
C31_FieldRunInsideOnePool ==
    [][FieldEntriesReturns =>
         /\ last'.ok =>
               LET pool == last'.slot[1]
                   first == last'.slot[2]
                   n == last'.count
               IN /\ n >= 1
                  /\ first = FieldPoolCount(pool)
                  /\ first + n <= FieldPoolCapacity(pool)
                  /\ FieldPoolCountAfter(pool) = first + n
         /\ last'.count = 0 =>
               /\ ~last'.ok
               /\ UNCHANGED << header, overflow_regions >>]_vars

\* The slots of all object pools whose entry is Alive.
AliveSlots ==
    { slot \in DOMAIN entries : entries[slot].state = Alive }

\* C32: get_all_objects returns exactly the entries whose state is Alive,
\* those in overflow regions included, and no Destroyed entry.
C32_GetAllObjectsReturnsAlive ==
    [][(pc' = pc /\ last' # last /\ last'.op = "get_all_objects") =>
         { last'.all[i] : i \in 1..Len(last'.all) } = AliveSlots]_vars

\* No producer call is under way.
Quiescent == \A t \in Threads : pc[t] = "idle"

\* C33: between producer operations, sequence (0 after init) equals the
\* number of successful register_object calls plus the number of
\* destroy_object calls on a registered pointer plus the number of data
\* regions created by growth plus the number of overflow regions created;
\* failed calls and no-op destroys add nothing.
C33_SequenceAccounting ==
    (Quiescent /\ phase = "ready") =>
        header.sequence = tally.registered + tally.destroyed
                            + tally.grown + tally.overflows

\* allocate grew the session by a region and an object was registered in a
\* fresh overflow region: three bumps.
C33_RegisteredWithOverflowAndGrown ==
    /\ Quiescent
    /\ tally.registered = 1 /\ tally.overflows = 1 /\ tally.grown = 1
    /\ header.sequence = 3

\* Block b ends at or before the start of block c; a negative size stands
\* for a size of 2^63 or more, which ends past every offset.
EndsBefore(b, c) == b.size >= 0 /\ b.offset + b.size <= c.offset

\* C34: the byte ranges of any two successful allocations of size > 0 are
\* disjoint, and none overlaps the RegionDescriptor of its region.
C34_BlocksDisjoint ==
    \A b \in blocks :
        b.size # 0 =>
           /\ ULe(SizeofRegionDescriptor, b.offset)
           /\ \A c \in blocks :
                 (c # b /\ c.size # 0 /\ c.region_id = b.region_id) =>
                    EndsBefore(b, c) \/ EndsBefore(c, b)

\* C35: allocation only happens in the most recently created data region:
\* once a region has a successor its used cursor never changes again, even
\* if a later request would fit its free space.
C35_OnlyLastRegionAllocates ==
    [][\A i \in 1..Len(regions) :
         regions[i].next_region_id # 0 =>
            /\ i <= Len(regions')
            /\ regions'[i].used = regions[i].used]_vars

\* Region 1 still has room for 16 bytes, yet a 16-byte block was handed out
\* in region 2, after the block that made allocate grow.
C35_SmallBlockInSecondRegion ==
    /\ Len(regions) = 2
    /\ regions[1].next_region_id = 2
    /\ regions[1].used = SizeofRegionDescriptor
    /\ regions[1].used + 16 <= regions[1].size
    /\ \E b, c \in blocks :
          /\ b.region_id = 2 /\ b.size = 200
          /\ c.region_id = 2 /\ c.size = 16 /\ c.offset > b.offset

\* C36: the virtual index of an allocated field entry never changes: once
\* an overflow field pool holds an entry, no pool before it in the
\* concatenation (the header field pool, an earlier overflow field pool)
\* changes its count.
C36_VirtualFieldIndexStable ==
    [][\A j \in 1..Len(overflow_regions) :
         overflow_regions[j].field_entry_count # 0 =>
            /\ header'.field_count = header.field_count
            /\ \A i \in 1..(j - 1) :
                  overflow_regions'[i].field_entry_count
                    = overflow_regions[i].field_entry_count]_vars

\* The keys of ptr_to_entry_ whose value is the given entry.
KeysOf(slot) == { p \in DOMAIN ptr_to_entry : ptr_to_entry[p] = slot }

\* C37: between producer operations the pointer map tracks exactly the
\* Alive entries: every Alive entry is the value of exactly one key, and
\* every value of the map is an Alive entry.
C37_MapTracksAliveEntries ==
    Quiescent =>
        /\ \A slot \in AliveSlots : Cardinality(KeysOf(slot)) = 1
        /\ \A p \in DOMAIN ptr_to_entry : ptr_to_entry[p] \in AliveSlots

\* An allocate call that is one step returns in this step.
AllocateReturnsAtOnce ==
    pc' = pc /\ nops' # nops /\ last'.op = "allocate"

\* C38: an allocate that needs a new region and fails to create it returns
\* null and leaves what observers see as it was: no descriptor (used,
\* next_region_id) changes, first_region_id and sequence keep their values,
\* and the lock is free again; an allocate that fits the current region
\* succeeds in that region, after a failure too.
C38_FailedGrowLeavesStateUnchanged ==
    [][AllocateReturnsAtOnce =>
         /\ ~last'.ok =>
               /\ regions' = regions
               /\ header' = header
               /\ mutex' = mutex /\ mutex.regions = 0
         /\ Fits(current_region, last'.size, last'.alignment) =>
               /\ last'.ok
               /\ last'.ret[1] = current_region.id]_vars

\* A creation failed in allocate (an id was taken and no region made of it,
\* sequence still 0) and the allocate after it took a block of region 1.
C38_FitsAfterFailedGrow ==
    /\ Quiescent
    /\ phase = "ready"
    /\ Len(regions) = 1 /\ next_region_id > 2
    /\ header.sequence = 0
    /\ last.op = "allocate" /\ last.ok /\ last.ret[1] = 1

\* Thread t is inside an allocate_field_entries call that went on to create
\* an overflow region for more entries than a fresh region's field pool
\* holds: the call returns nullptr at line 338.
TooLargeUnderWay(t) ==
    /\ pc[t] # "idle"
    /\ loc[t].op = "allocate_field_entries"
    /\ ULt(FieldCapacity, loc[t].count)

\* C39: a failing allocate_field_entries(n), n larger than a fresh overflow
\* region's field capacity, leaves the shared state unchanged: none of its
\* steps creates or links an overflow region, changes a pool count or bumps
\* header.sequence.
C39_TooLargeLeavesStateUnchanged ==
    [][\A t \in Threads :
         (TooLargeUnderWay(t) /\ pc'[t] # pc[t]) =>
            /\ header' = header
            /\ overflow_regions' = overflow_regions]_vars
====
